---- MODULE Spec2Model ----
(***************************************************************************)
(* Model of the semantic query cache of the chatbot backend                *)
(* (src/src/config/cache/redis_cache.py, class RedisCache) and of its      *)
(* multi-query retriever                                                   *)
(* (src/src/services/base/implements/MultiQueryRetriever.py).              *)
(*                                                                         *)
(* Strings that the code matches against glob patterns (Redis keys and     *)
(* KEYS patterns) are sequences of one-character strings; an md5 hex       *)
(* digest is one opaque token of that sequence (it holds no ':' and none   *)
(* of the letters of the key prefixes).                                    *)
(***************************************************************************)
EXTENDS Integers, Sequences, FiniteSets, TLC

VARIABLES
    enabled,            \* self.enabled and self.client is not None
    semantic,           \* self._semantic_enabled and self._embedding_model
    decode_responses,   \* self.decode_responses
    store,              \* the Redis keyspace: key -> [val, exp]
    now,                \* the Redis server's clock
    cached,             \* history: per call triple, what the last result SETEX wrote
    ret,                \* the last call of the public API and what it returned
    nsets,              \* number of set_query_results calls so far
    setCall,            \* a set_query_results call in flight (concurrent specification)
    invCall,            \* an invalidate_query_cache call in flight (concurrent specification)
    mq,                 \* the last call of the MultiQueryRetriever and what it returned
    cfg,                \* rag_config: the global _config and the environment it was read from
    call,               \* the last call of a stateless operation and what it returned
    mem,                \* the Chatbot's in-memory documents, metadata and embeddings
    vs                  \* the FAISSVectorStore: its index and its chunk_id_map

\* the state of the RedisCache
cache == <<enabled, semantic, decode_responses, store, now, cached, ret, nsets,
           setCall, invCall>>

\* the state of the configuration, the database search, the chatbot memory
\* and the vector store
services == <<cfg, call, mem, vs>>

vars == <<cache, mq, services>>

-----------------------------------------------------------------------------
(* Bounds of the model *)

MaxSets == 2
MaxTime == 2

\* ttl arguments, in seconds
TTLs == {1, 2}

(* Inputs *)

\* (query, top_k, search_type) of the calls that cache results: a query, an
\* unrelated query, and the first query under another top_k and under
\* another search type.
Calls ==
    { <<"Q1", 5, "hybrid">>, <<"Q3", 5, "hybrid">>,
      <<"Q1", 3, "hybrid">>, <<"Q1", 5, "text">> }

\* ... of the lookups: the same, and a paraphrase of the first query
Lookups == Calls \cup { <<"Q2", 5, "hybrid">> }

\* result lists; an entry stands for one result dict
ResultLists == { <<>>, <<2, 1>> }

None == <<>>

-----------------------------------------------------------------------------
(* Strings *)

QUERY == <<"q", "u", "e", "r", "y">>
QUERY_EMB == <<"q", "u", "e", "r", "y", "_", "e", "m", "b">>
COLON == <<":">>

\* str.replace(old, new): every non-overlapping occurrence, left to right
RECURSIVE Replace(_, _, _)
Replace(s, old, new) ==
    IF Len(s) < Len(old) THEN s
    ELSE IF SubSeq(s, 1, Len(old)) = old
         THEN new \o Replace(SubSeq(s, Len(old) + 1, Len(s)), old, new)
         ELSE <<Head(s)>> \o Replace(Tail(s), old, new)

\* Redis glob matching of KEYS: '*' any run of characters, '?' one character
RECURSIVE GlobMatch(_, _)
GlobMatch(p, s) ==
    IF p = <<>> THEN s = <<>>
    ELSE IF Head(p) = "*"
         THEN GlobMatch(Tail(p), s) \/ (s # <<>> /\ GlobMatch(p, Tail(s)))
         ELSE /\ s # <<>>
              /\ \/ Head(p) = Head(s)
                 \/ Head(p) = "?" /\ Len(Head(s)) = 1
              /\ GlobMatch(Tail(p), Tail(s))

\* hashlib.md5(key_string.encode()).hexdigest(): one token per key string
md5(key_string) == "md5(" \o key_string \o ")"

\* json.dumps of a list of small numbers, as a string of characters
RECURSIVE JsonItems(_)
JsonItems(l) ==
    IF l = <<>> THEN <<>>
    ELSE IF Len(l) = 1 THEN <<ToString(Head(l))>>
         ELSE <<ToString(Head(l)), ",">> \o JsonItems(Tail(l))

JsonDumps(l) == <<"[">> \o JsonItems(l) \o <<"]">>

ParseDigit(c) == CHOOSE n \in 0..9 : ToString(n) = c

\* json.loads of such a string
JsonLoads(s) ==
    LET body == SubSeq(s, 2, Len(s) - 1)
        idx == { i \in 1..Len(body) : body[i] # "," }
        RECURSIVE Collect(_)
        Collect(i) ==
            IF i > Len(body) THEN <<>>
            ELSE IF i \in idx THEN <<ParseDigit(body[i])>> \o Collect(i + 1)
                 ELSE Collect(i + 1)
    IN  Collect(1)

\* as if the decoded list were tested ("if results:"): an empty list is false
Truthy_OfDecodedList(data) == data # None /\ data # <<"[", "]">>

\* truth value of what client.get returned: None and "" are false
Truthy(data) == data # None

-----------------------------------------------------------------------------
(* Embeddings and cosine similarity *)

\* self._embedding_model.encode(query): Q2 paraphrases Q1, Q3 is unrelated
Encode(q) ==
    CASE q = "Q1" -> <<4, 0>>
      [] q = "Q2" -> <<4, 1>>
      [] q = "Q3" -> <<0, 4>>

_compute_query_embedding(q, embOk) ==
    IF ~semantic THEN None
    ELSE IF embOk THEN Encode(q) ELSE None

Dot(v1, v2) == v1[1] * v2[1] + v1[2] * v2[2]

\* a similarity num / sqrt(densq), kept exact
ZeroSim == [num |-> 0, densq |-> 1]

_cosine_similarity(vec1, vec2) ==
    LET dot_product == Dot(vec1, vec2)
        norm_product_sq == Dot(vec1, vec1) * Dot(vec2, vec2)
    IN  IF norm_product_sq = 0 THEN ZeroSim
        ELSE [num |-> dot_product, densq |-> norm_product_sq]

\* a > b for similarities
SimGT(a, b) ==
    IF a.num >= 0 /\ b.num < 0 THEN TRUE
    ELSE IF a.num < 0 /\ b.num >= 0 THEN FALSE
    ELSE IF a.num >= 0
         THEN a.num * a.num * b.densq > b.num * b.num * a.densq
         ELSE a.num * a.num * b.densq < b.num * b.num * a.densq

SimGE(a, b) == ~SimGT(b, a)

\* REDIS_SEMANTIC_THRESHOLD default 0.95, as 95 / sqrt(10000)
semantic_threshold == [num |-> 95, densq |-> 10000]

-----------------------------------------------------------------------------
(* Keys *)

\* as if top_k were left out of the hashed arguments
_generate_cache_key_WithoutTopK(prefix, query, top_k, search_type) ==
    LET key_string == query \o ":" \o "search_type:" \o search_type
    IN  prefix \o COLON \o <<md5(key_string)>>

_generate_cache_key(prefix, query, top_k, search_type) ==
    LET key_string ==
            query \o ":" \o "search_type:" \o search_type
                  \o ":" \o "top_k:" \o ToString(top_k)
    IN  prefix \o COLON \o <<md5(key_string)>>

CacheKey(c) == _generate_cache_key(QUERY, c[1], c[2], c[3])

\* set_query_results: cache_key.replace('query:', 'query_emb:')
EmbeddingKeyOf(cache_key) == Replace(cache_key, QUERY \o COLON, QUERY_EMB \o COLON)

\* _semantic_search: emb_key.replace('query_emb:', 'query:')
CacheKeyOf(emb_key) == Replace(emb_key, QUERY_EMB \o COLON, QUERY \o COLON)

\* as if the scan took every embedding key: "query_emb:*"
SemanticPattern_AllPartitions(top_k, search_type) == QUERY_EMB \o COLON \o <<"*">>

\* _semantic_search: f"query_emb:{top_k}:{search_type}:*"
SemanticPattern(top_k, search_type) ==
    QUERY_EMB \o COLON \o <<ToString(top_k)>> \o COLON \o <<search_type>>
              \o COLON \o <<"*">>

\* invalidate_query_cache: pattern.replace("query:", "query_emb:")
InvalidateEmbeddingPattern(pattern) ==
    Replace(pattern, QUERY \o COLON, QUERY_EMB \o COLON)

DefaultPattern == QUERY \o COLON \o <<"*">>

Patterns ==
    { DefaultPattern,
      <<"*">>,
      <<"?">> \o Tail(QUERY) \o COLON \o <<"*">>,
      CacheKey(<<"Q1", 5, "hybrid">>) }

-----------------------------------------------------------------------------
(* The Redis commands *)

Setex(st, key, ttl, val) ==
    [x \in DOMAIN st \cup {key} |->
        IF x = key THEN [val |-> val, exp |-> now + ttl] ELSE st[x]]

Get(st, key) == IF key \in DOMAIN st THEN st[key].val ELSE None

Keys(st, pattern) == { x \in DOMAIN st : GlobMatch(pattern, x) }

Del(st, keys) == [x \in DOMAIN st \ keys |-> st[x]]

\* keys are unreadable from the instant their ttl has elapsed
Expire(st, t) == [x \in { y \in DOMAIN st : st[y].exp > t } |-> st[x]]

-----------------------------------------------------------------------------
(* What a call returns.  raised: the exception that reached the caller;    *)
(* calls: the backend and embedding-model calls the handler made, in       *)
(* order ("X!" is a call of X that raised).                                *)

NoRet ==
    [op |-> "none", call |-> <<"", 0, "">>, results |-> <<>>, ttl |-> 0,
     pattern |-> <<>>, raised |-> "none", ok |-> FALSE, hit |-> FALSE,
     data |-> <<>>, count |-> 0, calls |-> <<>>]

Miss(calls) == [hit |-> FALSE, data |-> None, calls |-> calls, raised |-> "none"]

\* a call left by an exception: it returns nothing
Raise(exc, calls) == [hit |-> FALSE, data |-> None, calls |-> calls, raised |-> exc]

\* what a try block returns when its handler let through caught
Handled(caught, calls) ==
    IF caught = "none" THEN Miss(calls) ELSE Raise(caught, calls)

\* as if a hit also renewed the ttl of the entry it read
Hit_Refreshing(cached_data, calls) ==
    [hit |-> TRUE, data |-> JsonLoads(cached_data), calls |-> calls \o <<"EXPIRE">>,
     raised |-> "none"]

\* "return json.loads(cached_data)" after the calls made so far
Hit(cached_data, calls) ==
    [hit |-> TRUE, data |-> JsonLoads(cached_data), calls |-> calls, raised |-> "none"]

Repeat(n, x) == [i \in 1..n |-> x]

\* every order in which KEYS may list a set of keys
Orders(S) ==
    { o \in [1..Cardinality(S) -> S] : \A i, j \in DOMAIN o : i # j => o[i] # o[j] }

-----------------------------------------------------------------------------
(* set_query_results *)

\* the handler "except (RedisError, json.JSONEncodeError)": the json module
\* has no attribute JSONEncodeError, so evaluating the clause raises
SetExceptClause(exc) == "AttributeError"

\* as if a set that stored no embedding took the result entry back and
\* reported a failure
StoredWithoutEmbedding_RolledBack(s1, calls) ==
    [store |-> store, raised |-> "none", ok |-> FALSE, calls |-> calls]

\* the result entry is written and no embedding goes with it: the else
\* branches of the semantic part, then "return True"
StoredWithoutEmbedding(s1, calls) ==
    [store |-> s1, raised |-> "none", ok |-> TRUE, calls |-> calls]

\* fault: which SETEX raises RedisError (0: none, 1: the result entry's,
\* 2: the embedding entry's)
set_query_results(query, results, top_k, search_type, ttl, embOk, fault) ==
    IF ~enabled
    THEN [store |-> store, raised |-> "none", ok |-> FALSE, calls |-> <<>>]
    ELSE
    LET cache_key == _generate_cache_key(QUERY, query, top_k, search_type)
        cached_data == JsonDumps(results)
        s1 == Setex(store, cache_key, ttl, cached_data)
        query_embedding == _compute_query_embedding(query, embOk)
        embedding_key == EmbeddingKeyOf(cache_key)
        embedding_data == JsonDumps(query_embedding)
        encode == IF embOk THEN "ENCODE" ELSE "ENCODE!"
    IN  IF fault = 1
        THEN [store |-> store, raised |-> SetExceptClause("RedisError"),
              ok |-> FALSE, calls |-> <<"SETEX!">>]
        ELSE IF semantic
        THEN IF query_embedding # None
             THEN IF fault = 2
                  THEN [store |-> s1, raised |-> SetExceptClause("RedisError"),
                        ok |-> FALSE, calls |-> <<"SETEX", encode, "SETEX!">>]
                  ELSE [store |-> Setex(s1, embedding_key, ttl, embedding_data),
                        raised |-> "none", ok |-> TRUE,
                        calls |-> <<"SETEX", encode, "SETEX">>]
             ELSE StoredWithoutEmbedding(s1, <<"SETEX", encode>>)
        ELSE StoredWithoutEmbedding(s1, <<"SETEX">>)

-----------------------------------------------------------------------------
(* get_query_results and _semantic_search *)

\* the loop of _semantic_search over the embedding keys, in the order KEYS
\* listed them; raised: emb_key.decode on a str (decode_responses) raises
RECURSIVE ScanEmbeddings(_, _, _, _)
ScanEmbeddings(embedding_keys, query_embedding, best_similarity, best_cache_key) ==
    IF embedding_keys = <<>>
    THEN [raised |-> FALSE, best_similarity |-> best_similarity,
          best_cache_key |-> best_cache_key, gets |-> 0]
    ELSE
    LET emb_key == Head(embedding_keys)
        cached_embedding_data == Get(store, emb_key)
        similarity ==
            _cosine_similarity(query_embedding, JsonLoads(cached_embedding_data))
        better == Truthy(cached_embedding_data) /\ SimGT(similarity, best_similarity)
        rest ==
            IF better
            THEN ScanEmbeddings(Tail(embedding_keys), query_embedding,
                                similarity, CacheKeyOf(emb_key))
            ELSE ScanEmbeddings(Tail(embedding_keys), query_embedding,
                                best_similarity, best_cache_key)
    IN  IF better /\ decode_responses
        THEN [raised |-> TRUE, best_similarity |-> best_similarity,
              best_cache_key |-> best_cache_key, gets |-> 1]
        ELSE [rest EXCEPT !.gets = @ + 1]

\* the handler "except Exception" of _semantic_search: what it lets through
SemanticExceptClause(exc) == "none"

\* fault 2: KEYS raises; order: the order in which KEYS lists the keys
_semantic_search(query, top_k, search_type, embOk, fault, order) ==
    LET query_embedding == _compute_query_embedding(query, embOk)
        scan == ScanEmbeddings(order, query_embedding, ZeroSim, None)
        found == /\ SimGE(scan.best_similarity, semantic_threshold)
                 /\ scan.best_cache_key # None
        cached_data == Get(store, scan.best_cache_key)
        scanned == <<"ENCODE", "KEYS">> \o Repeat(scan.gets, "GET")
    IN  IF query_embedding = None THEN Miss(<<"ENCODE!">>)
        ELSE IF fault = 2
        THEN Handled(SemanticExceptClause("RedisError"), <<"ENCODE", "KEYS!">>)
        ELSE IF order = <<>> THEN Miss(<<"ENCODE", "KEYS">>)
        ELSE IF scan.raised
        THEN Handled(SemanticExceptClause("AttributeError"), scanned)
        ELSE IF found
             THEN IF Truthy(cached_data)
                  THEN Hit(cached_data, scanned \o <<"GET">>)
                  ELSE Miss(scanned \o <<"GET">>)
             ELSE Miss(scanned)

\* as if the handler named json.JSONDecodeError alone
GetExceptClause_DecodeErrorOnly(exc) == IF exc = "JSONDecodeError" THEN "none" ELSE exc

\* the handler "except (RedisError, json.JSONDecodeError)" of
\* get_query_results: what it lets through
GetExceptClause(exc) == IF exc \in {"RedisError", "JSONDecodeError"} THEN "none" ELSE exc

\* as if the semantic search ran before the exact lookup
get_query_results_SemanticFirst(query, top_k, search_type, embOk, fault, order) ==
    IF ~enabled THEN Miss(<<>>)
    ELSE
    LET cache_key == _generate_cache_key(QUERY, query, top_k, search_type)
        cached_data == Get(store, cache_key)
        sem == IF semantic
               THEN _semantic_search(query, top_k, search_type, embOk, fault, order)
               ELSE Miss(<<>>)
    IN  IF sem.hit THEN sem
        ELSE IF fault = 1
        THEN Handled(GetExceptClause("RedisError"), sem.calls \o <<"GET!">>)
        ELSE IF Truthy(cached_data)
        THEN [hit |-> TRUE, data |-> JsonLoads(cached_data),
              calls |-> sem.calls \o <<"GET">>, raised |-> "none"]
        ELSE Miss(sem.calls \o <<"GET">>)

\* fault 1: the exact GET raises RedisError
get_query_results(query, top_k, search_type, embOk, fault, order) ==
    IF ~enabled THEN Miss(<<>>)
    ELSE
    LET cache_key == _generate_cache_key(QUERY, query, top_k, search_type)
        cached_data == Get(store, cache_key)
        sem == _semantic_search(query, top_k, search_type, embOk, fault, order)
    IN  IF fault = 1
        THEN Handled(GetExceptClause("RedisError"), <<"GET!">>)
        ELSE IF Truthy(cached_data)
        THEN Hit(cached_data, <<"GET">>)
        ELSE IF semantic
        THEN [sem EXCEPT !.calls = <<"GET">> \o @]
        ELSE Miss(<<"GET">>)

-----------------------------------------------------------------------------
(* invalidate_query_cache *)

\* the handler "except RedisError" of invalidate_query_cache: what it lets
\* through
InvalidateExceptClause(exc) == IF exc = "RedisError" THEN "none" ELSE exc

\* fault 1: KEYS raises RedisError, 2: DEL raises RedisError
invalidate_query_cache(pattern, fault) ==
    IF ~enabled THEN [store |-> store, count |-> 0, calls |-> <<>>, raised |-> "none"]
    ELSE
    LET query_keys == Keys(store, pattern)
        embedding_pattern == InvalidateEmbeddingPattern(pattern)
        embedding_keys == Keys(store, embedding_pattern)
        all_keys == query_keys \cup embedding_keys
    IN  IF fault = 1
        THEN [store |-> store, count |-> 0, calls |-> <<"KEYS!">>,
              raised |-> InvalidateExceptClause("RedisError")]
        ELSE IF all_keys # {}
        THEN IF fault = 2
             THEN [store |-> store, count |-> 0, calls |-> <<"KEYS", "KEYS", "DEL!">>,
                   raised |-> InvalidateExceptClause("RedisError")]
             ELSE [store |-> Del(store, all_keys), count |-> Cardinality(all_keys),
                   calls |-> <<"KEYS", "KEYS", "DEL">>, raised |-> "none"]
        ELSE [store |-> store, count |-> 0, calls |-> <<"KEYS", "KEYS">>,
              raised |-> "none"]

-----------------------------------------------------------------------------
(* State machine: the calls of one client after another *)

\* the configuration is not loaded, no stateless operation was called, the
\* chatbot memory and the vector store are empty
Unset == [kind |-> "unset", value |-> 0]

NoConfig ==
    [loaded |-> FALSE, chunk_size |-> 0, chunk_overlap |-> 0,
     similarity_threshold |-> 0, recency_weight |-> 0, valid |-> FALSE,
     env |-> [CHUNK_SIZE |-> Unset, CHUNK_OVERLAP |-> Unset,
              SIMILARITY_THRESHOLD |-> Unset, RECENCY_WEIGHT |-> Unset]]

NoOperation == [op |-> "none"]

ServicesIdle ==
    /\ cfg = NoConfig
    /\ call = NoOperation
    /\ mem = [documents |-> <<>>, document_metadata |-> <<>>, embeddings |-> <<>>,
              processed_files |-> {}, db |-> {}]
    /\ vs = [index |-> <<>>, chunk_id_map |-> <<>>]

\* no call of the MultiQueryRetriever has been made or is being looked at
NoCall ==
    [op |-> "none", multi_query_enabled |-> FALSE, num_variations |-> 0,
     llm |-> [kind |-> "none", text |-> <<>>], raised |-> "none",
     variations |-> <<>>, strategy |-> "", top_k |-> 0, outcomes |-> <<>>,
     results |-> <<>>, hangs |-> {}, idx |-> 0, results_by_chunk |-> <<>>,
     elapsed |-> 0]

NotCached == [live |-> FALSE, results |-> <<>>, exp |-> 0, ok |-> FALSE]

IdleSet ==
    [pc |-> "idle", call |-> <<"", 0, "">>, results |-> <<>>, ttl |-> 0,
     embOk |-> FALSE, ok |-> FALSE]

IdleInvalidate ==
    [pc |-> "idle", pattern |-> <<>>, query_keys |-> {}, embedding_keys |-> {},
     count |-> 0]

Init ==
    /\ enabled \in BOOLEAN
    \* the embedding model is loaded only when the client connected
    /\ semantic \in (IF enabled THEN BOOLEAN ELSE {FALSE})
    /\ decode_responses \in BOOLEAN
    /\ store = <<>>
    /\ now = 0
    /\ cached = [c \in Calls |-> NotCached]
    /\ ret = NoRet
    /\ nsets = 0
    /\ setCall = IdleSet
    /\ invCall = IdleInvalidate
    /\ mq = NoCall
    /\ ServicesIdle

SetQueryResults(c, results, ttl, embOk, fault) ==
    LET r == set_query_results(c[1], results, c[2], c[3], ttl, embOk, fault)
    IN  /\ ret = NoRet
        /\ nsets < MaxSets
        /\ nsets' = nsets + 1
        /\ store' = r.store
        /\ cached' =
              IF enabled /\ fault # 1
              THEN [cached EXCEPT ![c] = [live |-> TRUE, results |-> results,
                                          exp |-> now + ttl, ok |-> r.ok]]
              ELSE cached
        /\ ret' = [NoRet EXCEPT !.op = "set", !.call = c, !.results = results,
                                !.ttl = ttl, !.raised = r.raised, !.ok = r.ok,
                                !.calls = r.calls]
        /\ UNCHANGED <<services, mq, enabled, semantic, decode_responses, now, setCall, invCall>>

GetQueryResults(c, embOk, fault) ==
    \E order \in Orders(Keys(store, SemanticPattern(c[2], c[3]))) :
        LET r == get_query_results(c[1], c[2], c[3], embOk, fault, order)
        IN  /\ ret = NoRet
            /\ ret' = [NoRet EXCEPT !.op = "get", !.call = c, !.hit = r.hit,
                                    !.data = r.data, !.calls = r.calls,
                                    !.raised = r.raised]
            /\ UNCHANGED <<services, mq, enabled, semantic, decode_responses, store, now, cached,
                           nsets, setCall, invCall>>

InvalidateQueryCache(pattern, fault) ==
    LET r == invalidate_query_cache(pattern, fault)
    IN  /\ ret = NoRet
        /\ store' = r.store
        /\ cached' =
              [c \in Calls |->
                  IF enabled /\ fault = 0 /\ GlobMatch(pattern, CacheKey(c))
                  THEN NotCached ELSE cached[c]]
        /\ ret' = [NoRet EXCEPT !.op = "invalidate", !.pattern = pattern,
                                !.count = r.count, !.calls = r.calls,
                                !.raised = r.raised]
        /\ UNCHANGED <<services, mq, enabled, semantic, decode_responses, now, nsets,
                       setCall, invCall>>

\* a second passes on the server; entries whose ttl has elapsed are gone
Tick ==
    /\ ret = NoRet
    /\ now < MaxTime
    /\ now' = now + 1
    /\ store' = Expire(store, now + 1)
    /\ cached' = [c \in Calls |->
                    IF cached[c].live /\ cached[c].exp <= now + 1
                    THEN NotCached ELSE cached[c]]
    /\ UNCHANGED <<services, mq, enabled, semantic, decode_responses, ret, nsets, setCall, invCall>>

\* the caller has taken the value its call returned and goes on
Return ==
    /\ ret # NoRet
    /\ ret' = NoRet
    /\ UNCHANGED <<services, mq, enabled, semantic, decode_responses, store, now, cached, nsets,
                   setCall, invCall>>

Set == \E c \in Calls, results \in ResultLists, ttl \in TTLs, embOk \in BOOLEAN :
          SetQueryResults(c, results, ttl, embOk, 0)

GetResults == \E c \in Lookups : GetQueryResults(c, TRUE, 0)

Invalidate == \E pattern \in Patterns : InvalidateQueryCache(pattern, 0)

Next == Set \/ GetResults \/ Invalidate \/ Tick \/ Return

Spec == Init /\ [][Next]_vars

-----------------------------------------------------------------------------
(* The same client when the backend or the embedding model fails *)

\* the calls of the failing client: a query and an unrelated query of
\* one partition, and a paraphrase of the first for the lookups
FaultCalls == { <<"Q1", 5, "hybrid">>, <<"Q3", 5, "hybrid">> }

FaultLookups == FaultCalls \cup { <<"Q2", 5, "hybrid">> }

SetNoError ==
    \E c \in FaultCalls, ttl \in TTLs : SetQueryResults(c, <<2, 1>>, ttl, TRUE, 0)

GetNoError == \E c \in FaultLookups : GetQueryResults(c, TRUE, 0)

InvalidateNoError == InvalidateQueryCache(DefaultPattern, 0)

SetBackendError ==
    \E c \in FaultCalls, ttl \in TTLs, fault \in {1, 2} :
        SetQueryResults(c, <<2, 1>>, ttl, TRUE, fault)

GetBackendError ==
    \E c \in FaultLookups, fault \in {1, 2} : GetQueryResults(c, TRUE, fault)

GetEmbeddingError == \E c \in FaultLookups : GetQueryResults(c, FALSE, 0)

InvalidateBackendError ==
    \E pattern \in Patterns, fault \in {1, 2} : InvalidateQueryCache(pattern, fault)

NextFault ==
    \/ SetNoError
    \/ GetNoError
    \/ InvalidateNoError
    \/ SetBackendError
    \/ GetBackendError
    \/ GetEmbeddingError
    \/ InvalidateBackendError
    \/ Tick
    \/ Return

SpecFault == Init /\ [][NextFault]_vars

-----------------------------------------------------------------------------
(* One set_query_results and one invalidate_query_cache running            *)
(* concurrently: each step is one backend command.                         *)

ConcPatterns == { DefaultPattern, CacheKey(<<"Q1", 5, "hybrid">>) }

SetStart ==
    \E c \in Calls, results \in ResultLists, ttl \in TTLs, embOk \in BOOLEAN :
        /\ setCall.pc = "idle"
        /\ setCall' = [pc |-> IF enabled THEN "setex_result" ELSE "returned",
                       call |-> c, results |-> results, ttl |-> ttl,
                       embOk |-> embOk, ok |-> FALSE]
        /\ UNCHANGED <<services, mq, enabled, semantic, decode_responses, store, now, cached, ret,
                       nsets, invCall>>

\* self.client.setex(cache_key, ttl, cached_data)
SetWriteResult ==
    /\ setCall.pc = "setex_result"
    /\ store' = Setex(store, CacheKey(setCall.call), setCall.ttl,
                      JsonDumps(setCall.results))
    /\ setCall' =
          IF semantic /\ _compute_query_embedding(setCall.call[1], setCall.embOk) # None
          THEN [setCall EXCEPT !.pc = "setex_embedding"]
          ELSE [setCall EXCEPT !.pc = "returned", !.ok = TRUE]
    /\ UNCHANGED <<services, mq, enabled, semantic, decode_responses, now, cached, ret, nsets,
                   invCall>>

\* self.client.setex(embedding_key, ttl, embedding_data)
SetWriteEmbedding ==
    /\ setCall.pc = "setex_embedding"
    /\ store' = Setex(store, EmbeddingKeyOf(CacheKey(setCall.call)), setCall.ttl,
                      JsonDumps(_compute_query_embedding(setCall.call[1],
                                                         setCall.embOk)))
    /\ setCall' = [setCall EXCEPT !.pc = "returned", !.ok = TRUE]
    /\ UNCHANGED <<services, mq, enabled, semantic, decode_responses, now, cached, ret, nsets,
                   invCall>>

InvStart ==
    \E pattern \in ConcPatterns :
        /\ invCall.pc = "idle"
        /\ invCall' = [pc |-> IF enabled THEN "keys_query" ELSE "returned",
                       pattern |-> pattern, query_keys |-> {},
                       embedding_keys |-> {}, count |-> 0]
        /\ UNCHANGED <<services, mq, enabled, semantic, decode_responses, store, now, cached, ret,
                       nsets, setCall>>

\* query_keys = self.client.keys(pattern)
InvKeysQuery ==
    /\ invCall.pc = "keys_query"
    /\ invCall' = [invCall EXCEPT !.pc = "keys_embedding",
                                  !.query_keys = Keys(store, invCall.pattern)]
    /\ UNCHANGED <<services, mq, enabled, semantic, decode_responses, store, now, cached, ret,
                   nsets, setCall>>

\* embedding_keys = self.client.keys(embedding_pattern)
InvKeysEmbedding ==
    /\ invCall.pc = "keys_embedding"
    /\ invCall' =
          [invCall EXCEPT !.pc = "delete",
                          !.embedding_keys =
                              Keys(store, InvalidateEmbeddingPattern(invCall.pattern))]
    /\ UNCHANGED <<services, mq, enabled, semantic, decode_responses, store, now, cached, ret,
                   nsets, setCall>>

\* if all_keys: deleted = self.client.delete(*all_keys)
InvDelete ==
    LET all_keys == invCall.query_keys \cup invCall.embedding_keys
    IN  /\ invCall.pc = "delete"
        /\ store' = Del(store, all_keys)
        /\ invCall' = [invCall EXCEPT !.pc = "returned",
                          !.count = Cardinality(all_keys \cap DOMAIN store)]
        /\ UNCHANGED <<services, mq, enabled, semantic, decode_responses, now, cached, ret, nsets,
                       setCall>>

NextConc ==
    \/ SetStart
    \/ SetWriteResult
    \/ SetWriteEmbedding
    \/ InvStart
    \/ InvKeysQuery
    \/ InvKeysEmbedding
    \/ InvDelete

SpecConc == Init /\ [][NextConc]_vars

-----------------------------------------------------------------------------
(* MultiQueryRetriever: query variations from the text-generation model    *)
(* and the fusion of the results retrieved for each variation.             *)
(*                                                                         *)
(* A text is a sequence of one-character strings. A score is an exact      *)
(* fraction [num, den] in lowest terms, so that the halvings and the       *)
(* weights 1/(idx + 1) of the code are computed without rounding.          *)

\* num_variations ranges over 1 .. MaxVariations
MaxVariations == 2

\* lines of a generated text
MaxLines == 3

NL == "\n"

IsSpace(ch) == ch \in {" ", NL}

\* str.lstrip, str.rstrip, str.strip
RECURSIVE LStrip(_)
LStrip(s) == IF s # <<>> /\ IsSpace(Head(s)) THEN LStrip(Tail(s)) ELSE s

RECURSIVE RStrip(_)
RStrip(s) ==
    IF s # <<>> /\ IsSpace(s[Len(s)]) THEN RStrip(SubSeq(s, 1, Len(s) - 1)) ELSE s

Strip(s) == RStrip(LStrip(s))

\* str.split(sep) for a one-character separator
RECURSIVE Split(_, _)
Split(s, sep) ==
    IF \E i \in DOMAIN s : s[i] = sep
    THEN LET i == CHOOSE i \in DOMAIN s : s[i] = sep /\ \A j \in 1..(i - 1) : s[j] # sep
         IN  <<SubSeq(s, 1, i - 1)>> \o Split(SubSeq(s, i + 1, Len(s)), sep)
    ELSE <<s>>

\* str.startswith
StartsWith(s, prefix) == Len(s) >= Len(prefix) /\ SubSeq(s, 1, Len(prefix)) = prefix

\* '\n'.join(lines)
RECURSIVE JoinLines(_)
JoinLines(lines) ==
    IF lines = <<>> THEN <<>>
    ELSE IF Len(lines) = 1 THEN lines[1]
    ELSE lines[1] \o <<NL>> \o JoinLines(Tail(lines))

\* as if the slice kept the whole list
Slice_Whole(seq, n) == seq

\* seq[:n] for n >= 0
Slice(seq, n) == SubSeq(seq, 1, IF n < Len(seq) THEN n ELSE Len(seq))

\* the lines the list comprehension refuses: line.strip().startswith(
\* ('1.', '2.', '3.', '4.', '5.', '-', '*'))
RefusedPrefixes ==
    { <<"1", ".">>, <<"2", ".">>, <<"3", ".">>, <<"4", ".">>, <<"5", ".">>,
      <<"-">>, <<"*">> }

\* variations = [line.strip() for line in variations_text.split('\n')
\*               if line.strip() and not line.strip().startswith(...)]
RECURSIVE ParseLines(_)
ParseLines(lines) ==
    IF lines = <<>> THEN <<>>
    ELSE LET line == Strip(Head(lines))
             keep == line # <<>> /\ \A prefix \in RefusedPrefixes : ~StartsWith(line, prefix)
         IN  (IF keep THEN <<line>> ELSE <<>>) \o ParseLines(Tail(lines))

\* the digits of range(1, 10)
MarkerDigits == {"1", "2", "3", "4", "5", "6", "7", "8", "9"}

\* the loop that removes a leading "i. " or "i) "
RemoveNumbering(var) ==
    IF \E i \in MarkerDigits : StartsWith(var, <<i, ".", " ">>) \/ StartsWith(var, <<i, ")", " ">>)
    THEN SubSeq(var, 4, Len(var))
    ELSE var

\* clean_variations: the cleaned lines that are not empty
RECURSIVE CleanVariations(_)
CleanVariations(variations) ==
    IF variations = <<>> THEN <<>>
    ELSE LET cleaned == RemoveNumbering(Head(variations))
         IN  (IF cleaned # <<>> THEN <<cleaned>> ELSE <<>>)
                \o CleanVariations(Tail(variations))

\* what the text-generation model does when asked: it answers a text, it
\* raises, it is missing (llm_model is None), or its response has no text
LlmText(text) == [kind |-> "text", text |-> text]

LlmFailure(kind) == [kind |-> kind, text |-> <<>>]

LlmException(llm) ==
    CASE llm.kind = "raise" -> "GoogleAPIError"
      [] llm.kind = "no_model" -> "AttributeError"
      [] llm.kind = "no_text" -> "ValueError"
      [] OTHER -> "none"

\* as if the handler named ValueError alone
GenerateExceptClause_ValueErrorOnly(exc) == IF exc = "ValueError" THEN "none" ELSE exc

\* the handler "except Exception" of generate_query_variations: what it
\* lets through
GenerateExceptClause(exc) == "none"

generate_query_variations(query, multi_query_enabled, num_variations, llm) ==
    IF ~multi_query_enabled THEN [variations |-> <<query>>, raised |-> "none"]
    ELSE IF llm.kind # "text"
    THEN IF GenerateExceptClause(LlmException(llm)) = "none"
         THEN [variations |-> <<query>>, raised |-> "none"]
         ELSE [variations |-> <<>>, raised |-> GenerateExceptClause(LlmException(llm))]
    ELSE
    LET variations_text == Strip(llm.text)
        variations == ParseLines(Split(variations_text, NL))
        clean_variations == CleanVariations(variations)
        query_variations == Slice(clean_variations, num_variations)
        all_queries == <<query>> \o query_variations
    IN  [variations |-> all_queries, raised |-> "none"]

-----------------------------------------------------------------------------
(* Scores *)

RECURSIVE GCD(_, _)
GCD(a, b) == IF b = 0 THEN a ELSE GCD(b, a % b)

Fraction(num, den) ==
    LET g == GCD(num, den) IN [num |-> num \div g, den |-> den \div g]

\* a score given in hundredths
Score(hundredths) == Fraction(hundredths, 100)

Plus(a, b) == Fraction(a.num * b.den + b.num * a.den, a.den * b.den)

DividedBy(a, k) == Fraction(a.num, a.den * k)

Less(a, b) == a.num * b.den < b.num * a.den

\* max(existing_score, score)
Max(a, b) == IF Less(a, b) THEN b ELSE a

-----------------------------------------------------------------------------
(* retrieve_with_multi_query *)

\* as if a chunk seen again kept the score it was first seen with
new_score_KeepExisting(strategy, existing_score, score, idx) == existing_score

\* the score of a chunk that is already in results_by_chunk
new_score(strategy, existing_score, score, idx) ==
    CASE strategy = "max" -> Max(existing_score, score)
      [] strategy = "average" -> DividedBy(Plus(existing_score, score), 2)
      [] strategy = "weighted" -> Plus(existing_score, DividedBy(score, idx + 1))
      [] OTHER -> Max(existing_score, score)

\* hash(content): an integer that is no chunk id of the model and differs
\* from one content to another
hash(content) == content + 1000

\* chunk_id = metadata.get('chunk_id'), and hash(content) when that is None
\* (None is 0 here; chunk ids are positive)
ChunkKey(item) == IF item.chunk_id # 0 THEN item.chunk_id ELSE hash(item.content)

\* as if no chunk were ever found in results_by_chunk
Position_NeverSeen(results_by_chunk, chunk_id) == 0

\* results_by_chunk is the sequence of its entries in insertion order; an
\* entry's key is the key of the result stored in it
Position(results_by_chunk, chunk_id) ==
    IF \E i \in DOMAIN results_by_chunk : ChunkKey(results_by_chunk[i]) = chunk_id
    THEN CHOOSE i \in DOMAIN results_by_chunk : ChunkKey(results_by_chunk[i]) = chunk_id
    ELSE 0

\* the body of the loop over variation_results, for one (content, score,
\* metadata)
MergeResult(results_by_chunk, item, idx, strategy) ==
    LET i == Position(results_by_chunk, ChunkKey(item))
    IN  IF i # 0
        THEN [results_by_chunk EXCEPT
                 ![i] = [item EXCEPT
                            !.score = new_score(strategy, results_by_chunk[i].score,
                                                item.score, idx)]]
        ELSE Append(results_by_chunk, item)

RECURSIVE MergeResults(_, _, _, _)
MergeResults(results_by_chunk, variation_results, idx, strategy) ==
    IF variation_results = <<>> THEN results_by_chunk
    ELSE MergeResults(MergeResult(results_by_chunk, Head(variation_results), idx, strategy),
                      Tail(variation_results), idx, strategy)

\* the loop over the variations, from index idx on. An outcome of
\* search_function is the results that were merged and whether an
\* exception then ended the iteration ("except Exception: continue").
RECURSIVE MergeVariations(_, _, _, _)
MergeVariations(results_by_chunk, outcomes, idx, strategy) ==
    IF outcomes = <<>> THEN results_by_chunk
    ELSE MergeVariations(MergeResults(results_by_chunk, Head(outcomes).items, idx, strategy),
                         Tail(outcomes), idx + 1, strategy)

\* as if the results were left in the order of results_by_chunk
InsertSorted_Unsorted(sorted, x) == Append(sorted, x)

\* as if a result went before the results of equal score
InsertSorted_BeforeEqual(sorted, x) ==
    LET before == Cardinality({ i \in DOMAIN sorted : Less(x.score, sorted[i].score) })
    IN  SubSeq(sorted, 1, before) \o <<x>> \o SubSeq(sorted, before + 1, Len(sorted))

\* list.sort(key=lambda x: x[1], reverse=True): descending, and entries of
\* equal score stay in the order they had
InsertSorted(sorted, x) ==
    LET before == Cardinality({ i \in DOMAIN sorted : ~Less(sorted[i].score, x.score) })
    IN  SubSeq(sorted, 1, before) \o <<x>> \o SubSeq(sorted, before + 1, Len(sorted))

RECURSIVE SortByScore(_)
SortByScore(all_results) ==
    IF all_results = <<>> THEN <<>>
    ELSE InsertSorted(SortByScore(SubSeq(all_results, 1, Len(all_results) - 1)),
                      all_results[Len(all_results)])

\* search_function(q, limit) for a search whose ranked results are
\* outcome.items: it hands back the first limit of them
search_function(outcome, limit) == [outcome EXCEPT !.items = Slice(@, limit)]

\* outcomes[i]: what the search of the i-th variation finds
retrieve_with_multi_query(outcomes, strategy, top_k) ==
    LET variation_results ==
            [i \in DOMAIN outcomes |-> search_function(outcomes[i], top_k * 2)]
        results_by_chunk == MergeVariations(<<>>, variation_results, 0, strategy)
        all_results == SortByScore(results_by_chunk)
        final_results == Slice(all_results, top_k)
    IN  final_results

-----------------------------------------------------------------------------
(* State machine: the calls of the retriever, one after another *)

\* the user's query
Query == <<"q">>

\* lines the text-generation model writes: plain, numbered, bulleted,
\* padded, blank and empty ones
LlmLines ==
    { <<"a">>,
      <<"1", ".", " ", "b">>,
      <<"2", ")", " ", "c">>,
      <<"6", ".", " ", "d">>,
      <<"-", " ", "e">>,
      <<" ", "f", " ">>,
      <<" ">>,
      <<>> }

LlmTexts ==
    { JoinLines(lines) : lines \in UNION { [1..k -> LlmLines] : k \in 0..MaxLines } }

LlmFailures == { LlmFailure("raise"), LlmFailure("no_model"), LlmFailure("no_text") }

\* a text of k plain lines
PlainLines == <<"a", "b", "c", "d">>

PlainText(k) == JoinLines([i \in 1..k |-> <<PlainLines[((i - 1) % 4) + 1]>>])

Strategies == {"max", "average", "weighted"}

TopKs == {1, 2}

\* a result (content, score, metadata) of a chunk with an id; contents are
\* numbered
Item(chunk_id, hundredths) ==
    [chunk_id |-> chunk_id, content |-> chunk_id, score |-> Score(hundredths)]

\* a result whose metadata has no 'chunk_id'
Unkeyed(content, hundredths) ==
    [chunk_id |-> 0, content |-> content, score |-> Score(hundredths)]

Found(items) == [items |-> items, fails |-> FALSE]

\* the search raised after these items were merged
Failed(items) == [items |-> items, fails |-> TRUE]

\* what search_function does for one variation
SearchOutcomes ==
    { Found(<<>>),
      Found(<<Item(1, 80)>>),
      Found(<<Item(1, 40)>>),
      Found(<<Item(2, 80)>>),
      Found(<<Item(3, 40)>>),
      Found(<<Item(2, 80), Item(1, 80)>>),
      Found(<<Item(1, 40), Item(1, 80)>>),
      Found(<<Item(3, 40), Item(2, 80), Item(1, 80)>>),
      Found(<<Unkeyed(4, 80), Unkeyed(4, 40)>>),
      Failed(<<>>),
      Failed(<<Item(1, 80)>>) }

InitRetriever ==
    /\ enabled = FALSE
    /\ semantic = FALSE
    /\ decode_responses = FALSE
    /\ store = <<>>
    /\ now = 0
    /\ cached = [c \in Calls |-> NotCached]
    /\ ret = NoRet
    /\ nsets = 0
    /\ setCall = IdleSet
    /\ invCall = IdleInvalidate
    /\ mq = NoCall
    /\ ServicesIdle

CacheUnchanged == UNCHANGED <<cache, services>>

GenerateQueryVariations(multi_query_enabled, num_variations, llm) ==
    LET r == generate_query_variations(Query, multi_query_enabled, num_variations, llm)
    IN  /\ mq' = [NoCall EXCEPT !.op = "generate",
                                !.multi_query_enabled = multi_query_enabled,
                                !.num_variations = num_variations,
                                !.llm = llm, !.raised = r.raised,
                                !.variations = r.variations]
        /\ CacheUnchanged

RetrieveWithMultiQuery(num_variations, llm, strategy, top_k) ==
    LET g == generate_query_variations(Query, TRUE, num_variations, llm)
    IN  /\ \E outcomes \in [1..Len(g.variations) -> SearchOutcomes] :
              mq' = [NoCall EXCEPT !.op = "retrieve",
                                   !.multi_query_enabled = TRUE,
                                   !.num_variations = num_variations,
                                   !.llm = llm, !.raised = g.raised,
                                   !.variations = g.variations,
                                   !.strategy = strategy, !.top_k = top_k,
                                   !.outcomes = outcomes,
                                   !.results =
                                       retrieve_with_multi_query(outcomes, strategy, top_k)]
        /\ CacheUnchanged

Generate ==
    /\ mq = NoCall
    /\ \E multi_query_enabled \in BOOLEAN, num_variations \in 1..MaxVariations,
          text \in LlmTexts :
           GenerateQueryVariations(multi_query_enabled, num_variations, LlmText(text))

GenerateLlmFailure ==
    /\ mq = NoCall
    /\ \E num_variations \in 1..MaxVariations, llm \in LlmFailures :
           GenerateQueryVariations(TRUE, num_variations, llm)

Retrieve ==
    /\ mq = NoCall
    /\ \E num_variations \in 1..MaxVariations, k \in 0..MaxVariations,
          strategy \in Strategies, top_k \in TopKs :
           RetrieveWithMultiQuery(num_variations, LlmText(PlainText(k)), strategy, top_k)

RetrieveLlmFailure ==
    /\ mq = NoCall
    /\ \E strategy \in Strategies, top_k \in TopKs :
           RetrieveWithMultiQuery(MaxVariations, LlmFailure("raise"), strategy, top_k)

\* the caller has taken the list its call returned and goes on
Returned ==
    /\ mq.op \in {"generate", "retrieve"}
    /\ mq' = NoCall
    /\ CacheUnchanged

NextRetriever ==
    \/ Generate
    \/ GenerateLlmFailure
    \/ Retrieve
    \/ RetrieveLlmFailure
    \/ Returned

SpecRetriever == InitRetriever /\ [][NextRetriever]_vars

-----------------------------------------------------------------------------
(* retrieve_with_multi_query one search at a time, with searches that never *)
(* return, while the time the caller allows for the call runs out.          *)

\* the time the caller allows, in ticks
Deadline == 2

\* the call begins; hangs: the variations whose search will never return
StartRetrieval ==
    /\ mq = NoCall
    /\ \E strategy \in Strategies, top_k \in TopKs,
          outcomes \in [1..2 -> SearchOutcomes], hangs \in SUBSET (1..2) :
           mq' = [NoCall EXCEPT !.op = "searching", !.multi_query_enabled = TRUE,
                                !.variations = <<Query, <<"a">>>>,
                                !.strategy = strategy, !.top_k = top_k,
                                !.outcomes = outcomes, !.hangs = hangs]
    /\ CacheUnchanged

\* one iteration of the loop: search_function returns or raises, and what
\* it handed back is merged
SearchReturns ==
    /\ mq.op = "searching"
    /\ mq.idx < Len(mq.variations)
    /\ (mq.idx + 1) \notin mq.hangs
    /\ mq' = [mq EXCEPT
                 !.idx = @ + 1,
                 !.results_by_chunk =
                     MergeResults(@, search_function(mq.outcomes[mq.idx + 1],
                                                     mq.top_k * 2).items,
                                  mq.idx, mq.strategy)]
    /\ CacheUnchanged

\* after the loop: sort, truncate, return
FinishRetrieval ==
    /\ mq.op = "searching"
    /\ mq.idx = Len(mq.variations)
    /\ mq' = [mq EXCEPT !.op = "retrieve",
                        !.results = Slice(SortByScore(mq.results_by_chunk), mq.top_k)]
    /\ CacheUnchanged

\* time passes while the call waits for a search that does not return
ClockTick ==
    /\ mq.op = "searching"
    /\ (mq.idx + 1) \in mq.hangs
    /\ mq.elapsed <= Deadline
    /\ mq' = [mq EXCEPT !.elapsed = @ + 1]
    /\ CacheUnchanged

NextDeadline ==
    \/ StartRetrieval
    \/ SearchReturns
    \/ FinishRetrieval
    \/ ClockTick
    \/ Returned

SpecDeadline == InitRetriever /\ [][NextDeadline]_vars

-----------------------------------------------------------------------------
(* rag_config: RAGConfig.from_env, RAGConfig.validate, get_config and      *)
(* reload_config. Thresholds and weights are in hundredths.                *)

\* an environment variable holding a number, and one holding other text
Number(value) == [kind |-> "number", value |-> value]

Junk == [kind |-> "junk", value |-> 0]

Envs ==
    [CHUNK_SIZE : {Unset, Number(50), Number(300)},
     CHUNK_OVERLAP : {Unset, Number(400)},
     SIMILARITY_THRESHOLD : {Unset, Junk, Number(50), Number(150)},
     RECENCY_WEIGHT : {Unset, Junk, Number(-50), Number(0), Number(50), Number(100),
                       Number(150)}]

\* int(os.getenv(NAME, default)) and float(...), with the default again
\* when the text is no number (ValueError)
from_env(env) ==
    LET parse(raw, default) == IF raw.kind = "number" THEN raw.value ELSE default
    IN  [NoConfig EXCEPT !.loaded = TRUE, !.env = env,
                         !.chunk_size = parse(env.CHUNK_SIZE, 1500),
                         !.chunk_overlap = parse(env.CHUNK_OVERLAP, 200),
                         !.similarity_threshold = parse(env.SIMILARITY_THRESHOLD, 10),
                         !.recency_weight = parse(env.RECENCY_WEIGHT, 15)]

validate(config) ==
    /\ ~(config.chunk_size < 100)
    /\ ~(config.chunk_overlap >= config.chunk_size)
    /\ 0 <= config.similarity_threshold /\ config.similarity_threshold <= 100
    /\ 0 <= config.recency_weight /\ config.recency_weight <= 100

\* the global _config after get_config(), which returns it; valid is what
\* validate() answered, which is logged and nothing else
get_config(_config, env) ==
    IF _config.loaded THEN _config
    ELSE [from_env(env) EXCEPT !.valid = validate(from_env(env))]

GetConfig ==
    /\ \E env \in Envs : cfg' = get_config(cfg, env)
    /\ UNCHANGED <<cache, mq, call, mem, vs>>

\* reload_config: _config = None, then get_config()
ReloadConfig ==
    /\ \E env \in Envs : cfg' = get_config(NoConfig, env)
    /\ UNCHANGED <<cache, mq, call, mem, vs>>

SpecConfig == InitRetriever /\ [][GetConfig \/ ReloadConfig]_vars

-----------------------------------------------------------------------------
(* db/services: DocumentChunkService.find_similar_chunks_by_embedding and  *)
(* find_similar_chunks_by_vintern_embedding. A chunk's embedding column is *)
(* <<>> when NULL and otherwise <<d>>, d the cosine distance (in           *)
(* hundredths, 0..200) from the query vector; a chunk's id is its index.   *)

Tables ==
    [1..3 -> [embedding : {<<>>, <<0>>, <<40>>, <<120>>},
              vintern_embedding : {<<>>, <<40>>, <<90>>}]]

\* SELECT ... WHERE column IS NOT NULL ORDER BY column <=> query LIMIT limit:
\* every list of rows the database may answer with (rows at the same
\* distance come in either order)
Select(table, column, limit) ==
    LET ids == {id \in DOMAIN table : table[id][column] # <<>>}
        n == IF Cardinality(ids) < limit THEN Cardinality(ids) ELSE limit
        distance(id) == table[id][column][1]
        answers ==
            {order \in [1..n -> ids] :
                /\ \A i, j \in 1..n : i < j => order[i] # order[j]
                /\ \A i, j \in 1..n : i < j => distance(order[i]) <= distance(order[j])
                /\ \A id \in ids : \/ \E i \in 1..n : order[i] = id
                                    \/ \A j \in 1..n : distance(order[j]) <= distance(id)}
    IN  {[i \in 1..n |-> [id |-> order[i], distance |-> distance(order[i])]] :
            order \in answers}

\* as if every row of the answer were kept
chunks_with_scores_NoThreshold(result, threshold) ==
    LET similarity(row) == IF 100 - row.distance > 0 THEN 100 - row.distance ELSE 0
        RECURSIVE loop(_, _)
        loop(i, acc) ==
            IF i > Len(result) THEN acc
            ELSE loop(i + 1, Append(acc, [chunk |-> result[i].id,
                                           similarity |-> similarity(result[i])]))
    IN  loop(1, <<>>)

\* the loop over the rows of the answer: similarity = max(0.0, 1.0 - distance),
\* kept when similarity >= threshold
chunks_with_scores(result, threshold) ==
    LET similarity(row) == IF 100 - row.distance > 0 THEN 100 - row.distance ELSE 0
        RECURSIVE loop(_, _)
        loop(i, acc) ==
            IF i > Len(result) THEN acc
            ELSE IF similarity(result[i]) >= threshold
                 THEN loop(i + 1, Append(acc, [chunk |-> result[i].id,
                                                similarity |-> similarity(result[i])]))
                 ELSE loop(i + 1, acc)
    IN  loop(1, <<>>)

find_similar_chunks(column) ==
    /\ call = NoOperation
    /\ \E table \in Tables, limit \in {1, 2}, threshold \in {0, 70} :
         \E result \in Select(table, column, limit) :
            call' = [op |-> column, table |-> table, limit |-> limit,
                     threshold |-> threshold,
                     returned |-> chunks_with_scores(result, threshold)]
    /\ UNCHANGED <<cache, mq, cfg, mem, vs>>

FindSimilarChunksByEmbedding == find_similar_chunks("embedding")

FindSimilarChunksByVinternEmbedding == find_similar_chunks("vintern_embedding")

\* the call in progress returns to its caller
CallReturns ==
    /\ call # NoOperation
    /\ call' = NoOperation
    /\ UNCHANGED <<cache, mq, cfg, mem, vs>>

SpecSearch ==
    /\ InitRetriever
    /\ [][FindSimilarChunksByEmbedding \/ FindSimilarChunksByVinternEmbedding
            \/ CallReturns]_vars

-----------------------------------------------------------------------------
(* RecencyWeightedRanker.score (design section 4.1); RAGConfig declares    *)
(* its recency_weight. Similarities and weights are in hundredths, ages in *)
(* whole units, the score an exact fraction.                               *)

MaxAge == 4

\* as if the similarity were not scaled down by 1 - recency_weight
RecencyWeightedRanker_score_Unscaled(raw_similarity, age, recency_weight) ==
    Fraction(100 * raw_similarity * (1 + age) + recency_weight * 100,
             100 * 100 * (1 + age))

\* (1 - recency_weight) * raw_similarity + recency_weight * recency_factor(age)
\* with recency_factor(age) = 1 / (1 + age), decreasing in age, within [0, 1]
RecencyWeightedRanker_score(raw_similarity, age, recency_weight) ==
    Fraction((100 - recency_weight) * raw_similarity * (1 + age) + recency_weight * 100,
             100 * 100 * (1 + age))

Similarities == {0, 10, 25, 50, 75, 90, 100}

RankerScore ==
    /\ call = NoOperation
    /\ \E raw_similarity \in Similarities, age \in 0..MaxAge,
          recency_weight \in {0, 15, 50, 100} :
            call' = [op |-> "score", raw_similarity |-> raw_similarity, age |-> age,
                     recency_weight |-> recency_weight,
                     returned |-> RecencyWeightedRanker_score(raw_similarity, age,
                                                              recency_weight)]
    /\ UNCHANGED <<cache, mq, cfg, mem, vs>>

SpecRanker == InitRetriever /\ [][RankerScore \/ CallReturns]_vars

-----------------------------------------------------------------------------
(* chatbot_memory: the Chatbot's in-memory documents, document_metadata    *)
(* and embeddings. A chunk's content is identified with its id, and its    *)
(* embedding column is <<>> when NULL and otherwise <<id>>, the vector of  *)
(* chunk id. mem.embeddings lists the rows of the matrix, <<>> both for    *)
(* None and for a matrix without rows (a search returns [] for either,     *)
(* and np.vstack adds rows to either alike). mem.db is the set of          *)
(* filenames the database holds, in the order of Catalog.                  *)

Catalog ==
    << [filename |-> "a.pdf", chunks |-> << [id |-> 1, embedding |-> <<>>],
                                            [id |-> 2, embedding |-> <<2>>] >>],
       [filename |-> "b.pdf", chunks |-> << [id |-> 3, embedding |-> <<3>>],
                                            [id |-> 4, embedding |-> <<4>>] >>],
       [filename |-> "c.png", chunks |-> << [id |-> 5, embedding |-> <<>>] >>] >>

\* _load_document_into_memory: self after the call
load_document_into_memory(self, doc) ==
    LET chunks == doc.chunks
        RECURSIVE embeddings_list(_)
        embeddings_list(i) ==
            IF i > Len(chunks) THEN <<>>
            ELSE (IF chunks[i].embedding # <<>> THEN chunks[i].embedding ELSE <<>>)
                 \o embeddings_list(i + 1)
    IN  IF chunks = <<>> THEN self
        ELSE [self EXCEPT
                !.documents = @ \o [i \in 1..Len(chunks) |-> chunks[i].id],
                !.document_metadata =
                    @ \o [i \in 1..Len(chunks) |->
                            [chunk_id |-> chunks[i].id, source_file |-> doc.filename]],
                !.embeddings = @ \o embeddings_list(1)]

\* process_document of a file not processed before: the pipeline stores the
\* document, _load_document_into_memory loads it, and the filename is
\* added to processed_files
LoadDocumentIntoMemory ==
    /\ call = NoOperation
    /\ \E d \in DOMAIN Catalog :
         /\ Catalog[d].filename \notin mem.processed_files
         /\ mem' = [load_document_into_memory(mem, Catalog[d]) EXCEPT
                        !.db = @ \union {Catalog[d].filename},
                        !.processed_files = @ \union {Catalog[d].filename}]
    /\ UNCHANGED <<cache, mq, cfg, call, vs>>

LoadDocumentsFromDatabase ==
    /\ call = NoOperation
    /\ LET empty == [mem EXCEPT !.documents = <<>>, !.document_metadata = <<>>,
                                !.embeddings = <<>>]
           RECURSIVE all(_, _)
           all(d, acc) ==
               IF d > Len(Catalog) THEN acc
               ELSE IF Catalog[d].filename \in mem.db
                    THEN all(d + 1, [load_document_into_memory(acc, Catalog[d]) EXCEPT
                                        !.processed_files =
                                            @ \union {Catalog[d].filename}])
                    ELSE all(d + 1, acc)
           loaded == all(1, empty)
       IN  mem' = IF mem.db = {} THEN mem
                  ELSE [loaded EXCEPT
                          !.embeddings = IF loaded.embeddings # <<>>
                                         THEN loaded.embeddings ELSE mem.embeddings]
    /\ UNCHANGED <<cache, mq, cfg, call, vs>>

DeleteDocument ==
    /\ call = NoOperation
    /\ \E d \in DOMAIN Catalog :
         LET filename == Catalog[d].filename
             RemoveAt(seq, idx) == SubSeq(seq, 1, idx - 1) \o SubSeq(seq, idx + 1, Len(seq))
             RECURSIVE remove(_, _)
             \* for idx in reversed(indices_to_remove)
             remove(idx, self) ==
                 IF idx = 0 THEN self
                 ELSE IF mem.document_metadata[idx].source_file = filename
                      THEN remove(idx - 1,
                                  [self EXCEPT
                                     !.document_metadata = RemoveAt(@, idx),
                                     !.documents = RemoveAt(@, idx),
                                     !.embeddings = IF Len(@) >= idx
                                                    THEN RemoveAt(@, idx) ELSE @])
                      ELSE remove(idx - 1, self)
         IN  mem' = IF filename \notin mem.db /\ filename \notin mem.processed_files
                    THEN mem
                    ELSE [remove(Len(mem.document_metadata), mem) EXCEPT
                            !.db = @ \ {filename},
                            !.processed_files = @ \ {filename}]
    /\ UNCHANGED <<cache, mq, cfg, call, vs>>

ClearMemory ==
    /\ call = NoOperation
    /\ mem' = [mem EXCEPT !.documents = <<>>, !.document_metadata = <<>>,
                          !.embeddings = <<>>, !.processed_files = {}]
    /\ UNCHANGED <<cache, mq, cfg, call, vs>>

\* search_relevant_documents: the query is nearest to the vector of chunk
\* query; each returned triple is given with the row the score came from
SearchRelevantDocuments ==
    /\ call = NoOperation
    /\ \E query \in 1..5, top_k \in {1, 2} :
         LET n == Len(mem.embeddings)
             similarities == [i \in 1..n |-> IF mem.embeddings[i] = query THEN 100
                                             ELSE 10 * mem.embeddings[i]]
             k == IF n < top_k THEN n ELSE top_k
             \* np.argsort(similarities)[::-1][:top_k]
             argsort == {top \in [1..k -> 1..n] :
                            /\ \A i, j \in 1..k : i < j => top[i] # top[j]
                            /\ \A i, j \in 1..k :
                                   i < j => similarities[top[i]] >= similarities[top[j]]
                            /\ \A r \in 1..n :
                                   \/ \E i \in 1..k : top[i] = r
                                   \/ \A j \in 1..k :
                                          similarities[top[j]] >= similarities[r]}
         IN  \E top_indices \in argsort :
                call' = [op |-> "search", query |-> query, top_k |-> top_k,
                         returned |->
                            IF mem.embeddings = <<>> \/ Len(mem.documents) = 0
                            THEN <<>>
                            ELSE IF \E i \in 1..k : top_indices[i] > Len(mem.documents)
                                 THEN <<>>  \* IndexError, caught
                                 ELSE [i \in 1..k |->
                                        [content |-> mem.documents[top_indices[i]],
                                         score |-> similarities[top_indices[i]],
                                         row |-> mem.embeddings[top_indices[i]],
                                         metadata |->
                                            mem.document_metadata[top_indices[i]]]]]
    /\ UNCHANGED <<cache, mq, cfg, mem, vs>>

SpecMemory ==
    /\ InitRetriever
    /\ [][LoadDocumentIntoMemory \/ LoadDocumentsFromDatabase \/ DeleteDocument
            \/ ClearMemory \/ SearchRelevantDocuments \/ CallReturns]_vars

-----------------------------------------------------------------------------
(* FAISSVectorStore, enabled (faiss imported, index built). vs.index lists *)
(* the vectors of the index in the order of their positions, each with the *)
(* chunk id it was added with (0: none); vs.chunk_id_map is chunk_id_map.  *)

MaxVectors == 3

\* as if the lengths of chunk_ids and embeddings were not compared
add_embeddings_Unchecked(self, embeddings, chunk_ids, dimension_ok) ==
    IF ~dimension_ok THEN self
    ELSE [self EXCEPT
            !.index = @ \o [i \in 1..Len(embeddings) |->
                              [vector |-> embeddings[i],
                               chunk_id |-> IF i <= Len(chunk_ids)
                                            THEN chunk_ids[i] ELSE 0]],
            !.chunk_id_map = @ \o chunk_ids]

\* self after add_embeddings; the ValueError of a length mismatch and the
\* error index.add raises for vectors of another dimension leave it as it was
add_embeddings(self, embeddings, chunk_ids, dimension_ok) ==
    IF Len(chunk_ids) # Len(embeddings) THEN self
    ELSE IF ~dimension_ok THEN self
    ELSE [self EXCEPT
            !.index = @ \o [i \in 1..Len(embeddings) |->
                              [vector |-> embeddings[i],
                               chunk_id |-> IF i <= Len(chunk_ids)
                                            THEN chunk_ids[i] ELSE 0]],
            !.chunk_id_map = @ \o chunk_ids]

AddEmbedding ==
    /\ call = NoOperation
    /\ Len(vs.index) < MaxVectors
    /\ \E embedding \in {1, 2}, chunk_id \in 1..3, dimension_ok \in BOOLEAN :
         vs' = add_embeddings(vs, <<embedding>>, <<chunk_id>>, dimension_ok)
    /\ UNCHANGED <<cache, mq, cfg, call, mem>>

AddEmbeddings ==
    /\ call = NoOperation
    /\ \E embeddings \in UNION {[1..n -> {1, 2}] : n \in 0..2},
          chunk_ids \in UNION {[1..n -> 1..3] : n \in 0..2},
          dimension_ok \in BOOLEAN :
         /\ Len(vs.index) + Len(embeddings) <= MaxVectors
         /\ vs' = add_embeddings(vs, embeddings, chunk_ids, dimension_ok)
    /\ UNCHANGED <<cache, mq, cfg, call, mem>>

Clear ==
    /\ call = NoOperation
    /\ vs' = [index |-> <<>>, chunk_id_map |-> <<>>]
    /\ UNCHANGED <<cache, mq, cfg, call, mem>>

\* rebuild_from_database: clear, then add_embeddings of np.vstack of the
\* embeddings; an embedding is a matrix of one row, or of two
RebuildFromDatabase ==
    /\ call = NoOperation
    /\ \E chunks_with_embeddings \in
              UNION {[1..n -> [chunk_id : 1..3, embedding : {<<1>>, <<2>>, <<1, 2>>}]] :
                        n \in 0..2} :
         LET n == Len(chunks_with_embeddings)
             chunk_ids == [i \in 1..n |-> chunks_with_embeddings[i].chunk_id]
             RECURSIVE vstack(_)
             vstack(i) == IF i > n THEN <<>>
                          ELSE chunks_with_embeddings[i].embedding \o vstack(i + 1)
             cleared == [index |-> <<>>, chunk_id_map |-> <<>>]
         IN  /\ Len(vstack(1)) <= MaxVectors
             /\ vs' = IF n = 0 THEN cleared
                       ELSE add_embeddings(cleared, vstack(1), chunk_ids, TRUE)
    /\ UNCHANGED <<cache, mq, cfg, call, mem>>

\* search: the positions index.search answers with, best first, and for
\* each the chunk id of chunk_id_map, with the id the vector was added with
Search ==
    /\ call = NoOperation
    /\ \E query_embedding \in {1, 2}, top_k \in {1, 2} :
         LET ntotal == Len(vs.index)
             k == IF top_k < ntotal THEN top_k ELSE ntotal
             similarity(idx) == IF vs.index[idx].vector = query_embedding
                                THEN 100 ELSE 50
             found == {indices \in [1..k -> 1..ntotal] :
                          /\ \A i, j \in 1..k : i < j => indices[i] # indices[j]
                          /\ \A i, j \in 1..k :
                                 i < j => similarity(indices[i]) >= similarity(indices[j])
                          /\ \A r \in 1..ntotal :
                                 \/ \E i \in 1..k : indices[i] = r
                                 \/ \A j \in 1..k :
                                        similarity(indices[j]) >= similarity(r)}
             RECURSIVE results(_, _)
             results(indices, i) ==
                 IF i > Len(indices) THEN <<>>
                 ELSE (IF indices[i] <= Len(vs.chunk_id_map)
                       THEN << [chunk_id |-> vs.chunk_id_map[indices[i]],
                                similarity |-> similarity(indices[i]),
                                added_with |-> vs.index[indices[i]].chunk_id] >>
                       ELSE <<>>)
                      \o results(indices, i + 1)
         IN  \E indices \in found :
                call' = [op |-> "search", top_k |-> top_k, found |-> k,
                         returned |-> results(indices, 1)]
    /\ UNCHANGED <<cache, mq, cfg, mem, vs>>

SpecStore ==
    /\ InitRetriever
    /\ [][AddEmbedding \/ AddEmbeddings \/ Clear \/ RebuildFromDatabase \/ Search
            \/ CallReturns]_vars

-----------------------------------------------------------------------------
(* Properties *)

HasKey(key) == key \in DOMAIN store

EmbeddingKey(c) == EmbeddingKeyOf(CacheKey(c))

SamePartition(c, d) == c[2] = d[2] /\ c[3] = d[3]

\* the similarity of a looked-up query to the embedding cached for call c
SimilarityTo(query, c) ==
    _cosine_similarity(Encode(query), JsonLoads(store[EmbeddingKey(c)].val))

\* the last call was a lookup whose exact GET reached the backend
Looked == ret.op = "get" /\ ret.calls # <<>> /\ ret.calls[1] = "GET"

Called(x) == \E i \in DOMAIN ret.calls : ret.calls[i] = x

\* C1: after set_query_results(q, R, k, t, ttl) returned True, and until the
\* ttl elapses or an invalidate or another set for (q, k, t) intervenes,
\* get_query_results(q, k, t) returns exactly R, the empty list included.
C1_RoundTrip ==
    (Looked /\ ret.call \in Calls /\ cached[ret.call].live /\ cached[ret.call].ok)
        => (ret.hit /\ ret.data = cached[ret.call].results)

C1_Witness ==
    /\ Looked /\ ret.call \in Calls
    /\ cached[ret.call].live /\ cached[ret.call].ok
    /\ cached[ret.call].results = <<>>
    /\ now > 0
    /\ ret.hit

\* C2: with semantic matching on, a lookup of Q2 that has no exact entry
\* returns the results cached under Q1 when Q1's cached embedding is the
\* best match of the (k, t) partition and reaches the threshold.
C2_SemanticHit ==
    \A c \in Calls :
        ( /\ Looked /\ semantic /\ Called("ENCODE")
          /\ ~HasKey(CacheKey(ret.call))
          /\ c[1] # ret.call[1] /\ SamePartition(c, ret.call)
          /\ cached[c].live /\ cached[c].ok /\ HasKey(EmbeddingKey(c))
          /\ SimGE(SimilarityTo(ret.call[1], c), semantic_threshold)
          /\ \A d \in Calls \ {c} :
                (SamePartition(d, c) /\ HasKey(EmbeddingKey(d)))
                    => SimGT(SimilarityTo(ret.call[1], c),
                             SimilarityTo(ret.call[1], d)) )
        => (ret.hit /\ ret.data = cached[c].results)

\* C3: once a set_query_results(A) with a computed embedding and a
\* concurrent invalidate_query_cache matching A have both returned, A's
\* result entry and A's embedding entry are both there or both gone.
C3_PairedAfterRace ==
    ( /\ setCall.pc = "returned" /\ invCall.pc = "returned"
      /\ enabled /\ semantic /\ setCall.embOk
      /\ GlobMatch(invCall.pattern, CacheKey(setCall.call)) )
    => (HasKey(CacheKey(setCall.call)) <=> HasKey(EmbeddingKey(setCall.call)))

\* C4: no entry is readable after its ttl, and when the ttl of a result
\* entry elapses its paired embedding entry goes with it.
C4_ExpireTogether ==
    [][ now' = now + 1 =>
          /\ \A key \in DOMAIN store' : store'[key].exp > now'
          /\ \A c \in Calls :
                (HasKey(CacheKey(c)) /\ HasKey(EmbeddingKey(c))
                    /\ CacheKey(c) \notin DOMAIN store')
                => EmbeddingKey(c) \notin DOMAIN store' ]_vars

\* C5: invalidate_query_cache(pattern) leaves no result entry matching the
\* pattern and no embedding entry paired with a matching result key, and
\* returns the number of entries it removed; the default pattern leaves no
\* result key and no embedding key at all.
C5_InvalidateRemovesPairs ==
    [][ (ret.op = "none" /\ ret'.op = "invalidate" /\ enabled) =>
          /\ \A c \in Calls :
                GlobMatch(ret'.pattern, CacheKey(c))
                    => /\ CacheKey(c) \notin DOMAIN store'
                       /\ EmbeddingKey(c) \notin DOMAIN store'
          /\ ret'.count = Cardinality(DOMAIN store) - Cardinality(DOMAIN store')
          /\ ret'.pattern = DefaultPattern => DOMAIN store' = {} ]_vars

\* C6: a set_query_results that wrote an embedding leaves it under a key
\* derived one-to-one from the result key, with the same expiry, and both
\* the invalidation and the semantic lookup of that (k, t) list that key.
C6_EmbeddingKeyFound ==
    (ret.op = "set" /\ ret.calls = <<"SETEX", "ENCODE", "SETEX">>)
    => /\ HasKey(CacheKey(ret.call)) /\ HasKey(EmbeddingKey(ret.call))
       /\ store[EmbeddingKey(ret.call)].exp = store[CacheKey(ret.call)].exp
       /\ CacheKeyOf(EmbeddingKey(ret.call)) = CacheKey(ret.call)
       /\ EmbeddingKey(ret.call)
            \in Keys(store, InvalidateEmbeddingPattern(DefaultPattern))
       /\ EmbeddingKey(ret.call)
            \in Keys(store, SemanticPattern(ret.call[2], ret.call[3]))

\* C7: a lookup with no exact entry, whose query is below the threshold
\* against every embedding cached in its (k, t) partition (or finds the
\* partition empty), returns None.
C7_SemanticMiss ==
    ( /\ ret.op = "get"
      /\ ~HasKey(CacheKey(ret.call))
      /\ \A c \in Calls :
            (SamePartition(c, ret.call) /\ HasKey(EmbeddingKey(c)))
                => ~SimGE(SimilarityTo(ret.call[1], c), semantic_threshold) )
    => ~ret.hit

C7_Witness ==
    /\ Looked /\ semantic /\ Called("KEYS")
    /\ ret.call = <<"Q3", 5, "hybrid">>
    /\ ~HasKey(CacheKey(ret.call))
    /\ HasKey(EmbeddingKey(<<"Q1", 5, "hybrid">>))
    /\ ~ret.hit

\* C8: what a lookup for (q, k, t) returns was cached by a set with the same
\* top_k and the same search type.
C8_PartitionIsolation ==
    (ret.op = "get" /\ ret.hit)
    => \E c \in Calls :
          /\ SamePartition(c, ret.call)
          /\ cached[c].live
          /\ cached[c].results = ret.data

C8_Witness ==
    /\ Looked /\ semantic /\ Called("KEYS")
    /\ ret.call = <<"Q1", 5, "hybrid">>
    /\ cached[<<"Q1", 3, "hybrid">>].live
    /\ cached[<<"Q1", 5, "text">>].live
    /\ HasKey(EmbeddingKey(<<"Q1", 3, "hybrid">>))
    /\ HasKey(EmbeddingKey(<<"Q1", 5, "text">>))
    /\ ~ret.hit

\* C9: a lookup's first call is the exact GET; on an exact hit it is the
\* only call and its value is returned; the embedding model is called only
\* after the exact GET missed.
C9_ExactFirst ==
    (ret.op = "get" /\ enabled)
    => /\ ret.calls # <<>> /\ ret.calls[1] \in {"GET", "GET!"}
       /\ (ret.calls[1] = "GET" /\ HasKey(CacheKey(ret.call)))
            => /\ ret.calls = <<"GET">>
               /\ ret.hit
               /\ ret.data = JsonLoads(store[CacheKey(ret.call)].val)
       /\ (Called("ENCODE") \/ Called("ENCODE!") \/ Called("KEYS"))
            => ~HasKey(CacheKey(ret.call))

C9_Witness ==
    /\ ret.op = "get" /\ semantic
    /\ HasKey(CacheKey(ret.call)) /\ HasKey(EmbeddingKey(ret.call))
    /\ ret.hit /\ ret.calls = <<"GET">>

\* C10: a set_query_results during which a SETEX raised RedisError returns
\* False, and no exception reaches the caller.
C10_SetNeverRaises ==
    (ret.op = "set" /\ Called("SETEX!")) => (ret.raised = "none" /\ ~ret.ok)

\* C11: a get_query_results on a disabled cache, or during which the exact
\* GET or the KEYS or a step of the semantic scan raised, returns None; an
\* invalidate_query_cache on a disabled cache, or during which KEYS or DEL
\* raised, returns 0; and no exception reaches the caller of either.
C11_UnavailableIsMiss ==
    /\ (ret.op = "get" /\ (~enabled \/ Called("GET!") \/ Called("KEYS!")))
          => (ret.raised = "none" /\ ~ret.hit /\ ret.data = None)
    /\ (ret.op = "invalidate" /\ (~enabled \/ Called("KEYS!") \/ Called("DEL!")))
          => (ret.raised = "none" /\ ret.count = 0)

C11_Witness ==
    /\ ret.op = "get" /\ enabled
    /\ ret.calls = <<"GET!">>
    /\ HasKey(CacheKey(ret.call))
    /\ ret.raised = "none" /\ ~ret.hit

\* C12: a set_query_results whose embedding computation failed has stored
\* the result entry under the exact key with the call's ttl and returned
\* True, and an exact get for the same (query, k, search_type) made then
\* hits with the results that were set.
C12_EmbeddingFailureKeepsResult ==
    (ret.op = "set" /\ Called("ENCODE!"))
    => /\ ret.ok /\ ret.raised = "none"
       /\ HasKey(CacheKey(ret.call))
       /\ store[CacheKey(ret.call)] =
             [val |-> JsonDumps(ret.results), exp |-> now + ret.ttl]
       /\ LET later == get_query_results(ret.call[1], ret.call[2], ret.call[3],
                                         TRUE, 0, <<>>)
          IN  later.hit /\ later.data = ret.results /\ later.calls = <<"GET">>

C12_Witness ==
    /\ ret.op = "set" /\ semantic
    /\ ret.calls = <<"SETEX", "ENCODE!">>
    /\ ret.results = <<2, 1>>
    /\ ret.ok
    /\ ~HasKey(EmbeddingKey(ret.call))

-----------------------------------------------------------------------------
(* Properties of the MultiQueryRetriever *)

\* the trimmed lines of a text
TrimmedLines(text) ==
    LET lines == Split(text, NL) IN [i \in DOMAIN lines |-> Strip(lines[i])]

\* the trimmed lines that are not empty, each without its leading "i. " or
\* "i) "
RECURSIVE Unnumbered(_)
Unnumbered(lines) ==
    IF lines = <<>> THEN <<>>
    ELSE (IF Head(lines) # <<>> THEN <<RemoveNumbering(Head(lines))>> ELSE <<>>)
            \o Unnumbered(Tail(lines))

Bulleted(line) == StartsWith(line, <<"-">>) \/ StartsWith(line, <<"*">>)

Generated == mq.op = "generate" /\ mq.multi_query_enabled /\ mq.llm.kind = "text"

\* C13: the variations generate_query_variations returns after the query
\* are the non-empty lines of the generated text, in order, each trimmed
\* and without its leading enumeration marker ("1. ", "2) "), up to
\* num_variations of them; a numbered line is kept, not dropped. (Texts
\* with bulleted lines are left aside.)
C13_NumberedLinesKept ==
    ( /\ Generated
      /\ \A i \in DOMAIN TrimmedLines(mq.llm.text) :
            ~Bulleted(TrimmedLines(mq.llm.text)[i]) )
    => Tail(mq.variations)
         = Slice(Unnumbered(TrimmedLines(mq.llm.text)), mq.num_variations)

Asked == mq.op \in {"generate", "retrieve"} /\ mq.multi_query_enabled

\* C14: the list generate_query_variations returns starts with the
\* original query and has between 1 and num_variations + 1 elements,
\* whatever the text-generation model answered or however it failed.
C14_FirstIsQueryAndLength ==
    mq.op \in {"generate", "retrieve"}
    => /\ mq.raised = "none"
       /\ Len(mq.variations) \in 1..(mq.num_variations + 1)
       /\ mq.variations[1] = Query

C14_Witness ==
    /\ Generated
    /\ Len(Unnumbered(TrimmedLines(mq.llm.text))) > mq.num_variations
    /\ Len(CleanVariations(ParseLines(Split(Strip(mq.llm.text), NL))))
          > mq.num_variations
    /\ Len(mq.variations) = mq.num_variations + 1

\* the text-generation model failed: it raised, it is missing, its
\* response has no text, or its text is empty or blank
LlmFailed == mq.llm.kind # "text" \/ Strip(mq.llm.text) = <<>>

\* C15: when the text-generation model failed, generate_query_variations
\* returns the list of the query alone and raises nothing, and
\* retrieve_with_multi_query then searches once, for the query.
C15_FailureFallsBack ==
    (Asked /\ LlmFailed)
    => /\ mq.raised = "none"
       /\ mq.variations = <<Query>>
       /\ mq.op = "retrieve" => Len(mq.outcomes) = 1

C15_Witness ==
    /\ mq.op = "retrieve"
    /\ mq.llm = LlmFailure("raise")
    /\ mq.variations = <<Query>>
    /\ mq.results # <<>>

\* the results the search of the i-th variation handed back
Fetched(i) == search_function(mq.outcomes[i], mq.top_k * 2).items

\* the places <<i, j>> where a chunk occurs: the j-th result of the i-th
\* variation
Occurrences(chunk_id) ==
    { ij \in UNION { {i} \X DOMAIN Fetched(i) : i \in DOMAIN mq.outcomes } :
        ChunkKey(Fetched(ij[1])[ij[2]]) = chunk_id }

ScoreAt(ij) == Fetched(ij[1])[ij[2]].score

Zero == Fraction(0, 1)

RECURSIVE SumOfScores(_)
SumOfScores(places) ==
    IF places = {} THEN Zero
    ELSE LET ij == CHOOSE ij \in places : TRUE
         IN  Plus(ScoreAt(ij), SumOfScores(places \ {ij}))

\* each score divided by the 1-based index of its variation, i.e. by idx + 1
RECURSIVE WeightedSumOfScores(_)
WeightedSumOfScores(places) ==
    IF places = {} THEN Zero
    ELSE LET ij == CHOOSE ij \in places : TRUE
         IN  Plus(DividedBy(ScoreAt(ij), ij[1]), WeightedSumOfScores(places \ {ij}))

\* a retrieval under a strategy in which no search failed
Retrieved(strategy) ==
    /\ mq.op = "retrieve" /\ mq.strategy = strategy
    /\ \A i \in DOMAIN mq.outcomes : ~mq.outcomes[i].fails

\* C16: under 'average' the score of every returned chunk is the
\* arithmetic mean of all the scores the chunk had in the variations'
\* results, however many they are.
C16_AverageIsMean ==
    Retrieved("average")
    => \A r \in DOMAIN mq.results :
          mq.results[r].score =
              DividedBy(SumOfScores(Occurrences(ChunkKey(mq.results[r]))),
                        Cardinality(Occurrences(ChunkKey(mq.results[r]))))

\* C17: under 'weighted' the score of every returned chunk is the sum of
\* its scores, each multiplied by 1 / (idx + 1) for the index idx of the
\* variation it came from, the occurrence that introduced the chunk
\* included.
C17_WeightedByIndex ==
    Retrieved("weighted")
    => \A r \in DOMAIN mq.results :
          mq.results[r].score
              = WeightedSumOfScores(Occurrences(ChunkKey(mq.results[r])))

\* C18: under 'max' the score of every returned chunk is the greatest of
\* the scores the chunk had in the variations' results, in whatever order
\* the variations came.
C18_MaxOfScores ==
    Retrieved("max")
    => \A r \in DOMAIN mq.results :
          LET places == Occurrences(ChunkKey(mq.results[r]))
          IN  /\ \E ij \in places : mq.results[r].score = ScoreAt(ij)
              /\ \A ij \in places : ~Less(mq.results[r].score, ScoreAt(ij))

C18_Witness ==
    /\ Retrieved("max")
    /\ Len(mq.outcomes) = 3
    /\ mq.outcomes[1].items = <<Item(1, 40)>>
    /\ mq.outcomes[2].items = <<Item(2, 80), Item(1, 80)>>
    /\ mq.outcomes[3].items = <<Item(1, 40)>>
    /\ mq.top_k = 2
    /\ \E r \in DOMAIN mq.results :
          mq.results[r] = Item(1, 80)

\* the outcomes with the failed searches replaced by searches that found
\* nothing
WithoutFailed(outcomes) ==
    [i \in DOMAIN outcomes |->
        IF outcomes[i].fails THEN Found(<<>>) ELSE outcomes[i]]

\* C19: whichever searches failed, before or after part of their results
\* were merged, retrieve_with_multi_query raises nothing and returns what
\* it returns when the failed searches find nothing: the fusion of the
\* other variations' results, and the empty list when every search failed.
C19_FailedContributeNothing ==
    mq.op = "retrieve"
    => /\ mq.raised = "none"
       /\ mq.results
            = retrieve_with_multi_query(WithoutFailed(mq.outcomes), mq.strategy, mq.top_k)
       /\ (\A i \in DOMAIN mq.outcomes : mq.outcomes[i].fails) => mq.results = <<>>

\* C20: a call on the same variations and the same results per variation
\* returns the same list again, and returned chunks of equal score are in
\* ascending order of chunk id.
C20_TiesByChunkId ==
    mq.op = "retrieve"
    => /\ mq.results = retrieve_with_multi_query(mq.outcomes, mq.strategy, mq.top_k)
       /\ \A r1, r2 \in DOMAIN mq.results :
             (r1 < r2 /\ mq.results[r1].score = mq.results[r2].score)
                => ChunkKey(mq.results[r1]) < ChunkKey(mq.results[r2])

\* a retrieval for the query alone under 'max' whose search returned
SingleVariation ==
    /\ mq.op = "retrieve" /\ mq.strategy = "max"
    /\ Len(mq.variations) = 1
    /\ ~mq.outcomes[1].fails

\* what retrieve_fn(q, k) truncated to k entries is
PlainRetrieval == Slice(search_function(mq.outcomes[1], mq.top_k).items, mq.top_k)

\* the list is in non-increasing order of score and names each chunk once
Ranked(items) ==
    /\ \A i \in 1..(Len(items) - 1) : ~Less(items[i].score, items[i + 1].score)
    /\ \A i, j \in DOMAIN items : ChunkKey(items[i]) = ChunkKey(items[j]) => i = j

\* C21 as stated: with the single variation [q] and 'max',
\* retrieve_with_multi_query returns the list retrieve_fn(q, k) truncated to
\* k entries, whatever retrieve_fn returns.
C21_SingleVariationIsPlain == SingleVariation => mq.results = PlainRetrieval

\* C21 amended: with the single variation [q] and 'max',
\* retrieve_with_multi_query returns the list retrieve_fn(q, k) truncated to
\* k entries, for every retrieve_fn whose list is in non-increasing order of
\* score, names each chunk once and is the beginning of its list for 2k.
C21_SingleVariationIsPlainWhenRanked ==
    (SingleVariation /\ Ranked(mq.outcomes[1].items)) => mq.results = PlainRetrieval

C21_Witness ==
    /\ SingleVariation
    /\ mq.outcomes[1].items = <<Item(2, 80), Item(1, 80)>>
    /\ mq.top_k = 1
    /\ mq.results = <<Item(2, 80)>>

\* C22: no two entries of the list retrieve_with_multi_query returns have
\* the same chunk identity (the chunk id, or the hash of the content when
\* there is no chunk id), whatever the searches returned.
C22_OneEntryPerChunk ==
    mq.op = "retrieve"
    => \A r1, r2 \in DOMAIN mq.results :
          ChunkKey(mq.results[r1]) = ChunkKey(mq.results[r2]) => r1 = r2

C22_Witness ==
    /\ mq.op = "retrieve"
    /\ Len(mq.outcomes) = 3
    /\ mq.outcomes[1].items = <<Unkeyed(4, 80), Unkeyed(4, 40)>>
    /\ mq.outcomes[2].items = <<Item(1, 40), Item(1, 80)>>
    /\ mq.outcomes[3].items = <<Item(1, 80)>>
    /\ Len(mq.results) = 2

\* every chunk the searches handed back, with its combined score
AllResults ==
    MergeVariations(<<>>,
        [i \in DOMAIN mq.outcomes |-> search_function(mq.outcomes[i], mq.top_k * 2)],
        0, mq.strategy)

\* C23: the list retrieve_with_multi_query returns is in non-increasing
\* order of combined score, has at most top_k entries, and holds the top_k
\* best of the distinct chunks handed back by the searches: all of them when
\* they are at most top_k, and otherwise no chunk left out has a higher
\* combined score than a chunk returned.
C23_SortedTopK ==
    mq.op = "retrieve"
    => /\ \A r \in 1..(Len(mq.results) - 1) :
             ~Less(mq.results[r].score, mq.results[r + 1].score)
       /\ Len(mq.results) <= mq.top_k
       /\ Len(mq.results) < mq.top_k => Len(mq.results) = Len(AllResults)
       /\ \A r \in DOMAIN mq.results : \E a \in DOMAIN AllResults :
             mq.results[r] = AllResults[a]
       /\ \A a \in DOMAIN AllResults :
             (\A r \in DOMAIN mq.results : mq.results[r] # AllResults[a])
                => \A r \in DOMAIN mq.results :
                      ~Less(mq.results[r].score, AllResults[a].score)

C23_Witness ==
    /\ mq.op = "retrieve"
    /\ mq.top_k = 2
    /\ Len(mq.outcomes) = 1
    /\ mq.outcomes[1].items = <<Item(3, 40), Item(2, 80), Item(1, 80)>>
    /\ mq.results = <<Item(2, 80), Item(1, 80)>>

\* C24: retrieve_with_multi_query is not still running once the time
\* allowed for it has run out: when a search never returns, the call has
\* by then returned the fusion of the searches that completed.
C24_ReturnsByDeadline == mq.op = "searching" => mq.elapsed <= Deadline

\* C25: a configuration that get_config hands out has its recency_weight
\* in [0, 1]: a RECENCY_WEIGHT outside it is neither kept as it is nor
\* clamped, no configuration is handed out.
C25_RecencyWeightInRange ==
    cfg.loaded => (0 <= cfg.recency_weight /\ cfg.recency_weight <= 100)

\* C26: a similarity search returns at most limit pairs, in order of
\* ascending distance and so of non-increasing similarity; each similarity
\* is max(0, 1 - distance) of its chunk, lies in [0, 1] and is at least the
\* threshold; each chunk has an embedding in the searched column; and with
\* no embedding in that column the list is empty.
C26_SimilarChunks ==
    call # NoOperation =>
        LET column == call.op
            returned == call.returned
            distance(i) == call.table[returned[i].chunk][column][1]
        IN  /\ Len(returned) <= call.limit
            /\ \A i \in 1..Len(returned) :
                   /\ returned[i].chunk \in DOMAIN call.table
                   /\ call.table[returned[i].chunk][column] # <<>>
                   /\ returned[i].similarity
                        = (IF distance(i) < 100 THEN 100 - distance(i) ELSE 0)
                   /\ 0 <= returned[i].similarity /\ returned[i].similarity <= 100
                   /\ returned[i].similarity >= call.threshold
            /\ \A i, j \in 1..Len(returned) :
                   i < j => /\ distance(i) <= distance(j)
                            /\ returned[i].similarity >= returned[j].similarity
            /\ (\A id \in DOMAIN call.table : call.table[id][column] = <<>>)
                   => returned = <<>>

\* a search over the vintern column, one chunk of the table without a
\* vintern embedding, returned two chunks of different similarity
C26_Witness ==
    /\ call # NoOperation
    /\ call.op = "vintern_embedding"
    /\ Len(call.returned) = 2
    /\ call.returned[1].similarity > call.returned[2].similarity
    /\ \E id \in DOMAIN call.table : call.table[id].vintern_embedding = <<>>

\* C27: the score of a chunk is no higher than the score of one of the same
\* age with a higher similarity, no lower than the score of an older one of
\* the same similarity, lies in [0, 1], and with a recency_weight of 0 is
\* the similarity itself.
C27_ScoreMonotone ==
    call.op = "score" =>
        /\ \A raw_similarity \in Similarities :
               call.raw_similarity <= raw_similarity
                   => ~Less(RecencyWeightedRanker_score(raw_similarity, call.age,
                                                        call.recency_weight),
                            call.returned)
        /\ \A age \in 0..MaxAge :
               call.age <= age
                   => ~Less(call.returned,
                            RecencyWeightedRanker_score(call.raw_similarity, age,
                                                        call.recency_weight))
        /\ ~Less(call.returned, Score(0)) /\ ~Less(Score(100), call.returned)
        /\ call.recency_weight = 0 => call.returned = Score(call.raw_similarity)

\* a chunk that is neither new nor of the highest similarity was scored
\* with a weight strictly between 0 and 1
C27_Witness ==
    /\ call.op = "score"
    /\ call.age > 0 /\ call.age < MaxAge
    /\ call.raw_similarity = 90
    /\ call.recency_weight = 50
    /\ Less(call.returned, Score(call.raw_similarity))

\* C28: row i of the embeddings matrix is the embedding of documents[i] and
\* of document_metadata[i], so each triple a search returns has the content
\* and the metadata of the chunk whose embedding gave the score; and with
\* no embeddings loaded a search returns the empty list.
C28_RowsAligned ==
    /\ \A i \in 1..Len(mem.embeddings) :
           /\ i <= Len(mem.documents)
           /\ mem.embeddings[i] = mem.documents[i]
           /\ mem.embeddings[i] = mem.document_metadata[i].chunk_id
    /\ call.op = "search" =>
           /\ \A i \in 1..Len(call.returned) :
                  /\ call.returned[i].content = call.returned[i].row
                  /\ call.returned[i].metadata.chunk_id = call.returned[i].row
           /\ mem.embeddings = <<>> => call.returned = <<>>

\* C29: a get_query_results call leaves every entry of the cache, result
\* or embedding, as it was, value and expiry, and the only commands it
\* sends are reads (GET, KEYS), whether it ends in an exact hit, a
\* semantic hit, a miss or an error.
C29_GetReadOnly ==
    [][(ret = NoRet /\ ret'.op = "get")
          => /\ store' = store
             /\ \A i \in DOMAIN ret'.calls :
                    ret'.calls[i] \in {"GET", "GET!", "KEYS", "KEYS!", "ENCODE", "ENCODE!"}]_vars

\* a get without an exact entry went on to the semantic search, with a
\* result entry and an embedding entry in the cache
C29_Witness ==
    /\ ret.op = "get"
    /\ ~ret.hit
    /\ Called("KEYS")
    /\ Cardinality(DOMAIN store) >= 2

\* C30: chunk_id_map has one entry per vector of the index, the chunk id
\* the vector was added with, so a search returns, for every position the
\* index answers with, the chunk id added with the vector at that position.
C30_MapMatchesIndex ==
    /\ Len(vs.chunk_id_map) = Len(vs.index)
    /\ \A i \in 1..Len(vs.index) : vs.chunk_id_map[i] = vs.index[i].chunk_id
    /\ call.op = "search" =>
           /\ Len(call.returned) = call.found
           /\ \A i \in 1..Len(call.returned) :
                  call.returned[i].chunk_id = call.returned[i].added_with

\* a search over an index of three vectors, added by more than one call,
\* returned two positions
C30_Witness ==
    /\ call.op = "search"
    /\ Len(call.returned) = 2
    /\ Len(vs.index) = 3
    /\ vs.index[1].vector # vs.index[2].vector
    /\ vs.chunk_id_map[1] # vs.chunk_id_map[3]

====
